---- MODULE Spec2Model ----
(***************************************************************************)
(* Model of the document ingestion pipeline of Rag-File-Uploader:          *)
(*   - the text chunker (chunk.ts),                                        *)
(*   - the document store (lib/store.ts),                                  *)
(*   - the upload, embedding and maintenance routes (app/api/...).         *)
(* Texts are sequences of one-character strings.                           *)
(***************************************************************************)
EXTENDS Integers, Sequences, FiniteSets, TLC

\* ------------------------------------------------------------------------
\* Bounds of the model
\* ------------------------------------------------------------------------
MaxLen == 8
MaxTokensBound == 2
MaxOverlapTokens == 1

Alphabet == {"a", ".", " ", "\n"}
LiveAlphabet == {"a", ".", " "}
\* length of the texts of the calls that scan several full windows
MaxLongLen == 9
MaxChunks == MaxLen + 2

\* documents uploaded, embedding requests made, and requests of any kind
\* (upload, embedding, delete, fix-stuck) made in one behaviour
MaxDocs == 2
MaxEmbedCalls == 2
MaxRequests == 3
\* requests being served at the same time; a request is being served until
\* its handler has returned and the store.update calls it made have settled
MaxConcurrent == 2

\* The embedding route chunks with chunkText(content, 1000, 100); the model
\* scales the budget down so that short texts span several windows.
EmbedMaxTokens == 1
EmbedOverlapTokens == 0

\* texts the extractor may return: empty, a text of two chunks, and a text
\* on which the chunker scan does not advance
Contents ==
  { <<>>,
    <<"a", "a", "a", "a", "a">>,
    <<"a", " ", " ", " ", " ", "b">> }

\* makeSnippet: lengths of chunk texts and queries, and the radius values
MaxSnipLen == 6
MaxQueryLen == 2
MaxRadius == 2
SnipAlphabet == {"a", "B", " "}

\* The chat route calls makeSnippet with radius 220, packs the context into
\* 2400 characters and asks the index for at least 8 matches; the model
\* scales these down so that short chunks reach the limits.
ChatRadius == 1
ChatCharBudget == 48
MinTopK == 2
ChatKs == {1, 3}
ChatQuestions == {<<"a">>, <<"z">>}
\* similarity scores in hundredths
Scores == {14, 15, 16}
\* the text of every ingested document of the chat scenarios
EmbeddedContent == <<"a", "a", "a", "a", "a">>

\* matches handed to one call of packContext
MaxMatches == 3

\* stand-in for the snippet radius of the search route (180)
SearchRadius == 1

\* files in one upload request
MaxFiles == 3

\* runs of the stuck-document sweep in one behaviour
MaxSweeps == 2

\* calls of DocumentsList.load in one behaviour
MaxLoads == 5

\* batchSize values of embedding requests (64 is the default)
DEFAULT_BATCH_SIZE == 64
BatchSizes == {1, DEFAULT_BATCH_SIZE}

\* ------------------------------------------------------------------------
\* chunk.ts
\* ------------------------------------------------------------------------
APPROX_CHARS_PER_TOKEN == 4

\* characters String.prototype.trim removes
WhiteSpace == {" ", "\t", "\n", "\r"}

Max(S) == CHOOSE x \in S : \A y \in S : y <= x
Min(S) == CHOOSE x \in S : \A y \in S : x <= y

\* s.slice(a, b) for 0 <= a, 0 <= b, 0-based and end-exclusive
Slice(s, a, b) == SubSeq(s, a + 1, IF b > Len(s) THEN Len(s) ELSE b)

\* s.trim()
Trim(s) ==
  LET keep == {i \in 1..Len(s) : s[i] \notin WhiteSpace}
  IN IF keep = {} THEN <<>> ELSE SubSeq(s, Min(keep), Max(keep))

\* s.lastIndexOf(sub): 0-based index of the last occurrence, -1 when absent
LastIndexOf(s, sub) ==
  LET k == Len(sub)
      occ == {i \in 0..(Len(s) - k) : SubSeq(s, i + 1, i + k) = sub}
  IN IF occ = {} THEN -1 ELSE Max(occ)

\* s.replace(/\r/g, "")
StripCR(s) == SelectSeq(s, LAMBDA c : c # "\r")

\* position i of s starts a run of spaces/tabs that ends right before "\n"
BlankBeforeNewline(s, i) ==
  /\ s[i] \in {" ", "\t"}
  /\ \E j \in (i + 1)..Len(s) :
       /\ s[j] = "\n"
       /\ \A k \in i..(j - 1) : s[k] \in {" ", "\t"}

\* s.replace(/[ \t]+\n/g, "\n")
RECURSIVE StripBlankBeforeNewline(_)
StripBlankBeforeNewline(s) ==
  IF s = <<>> THEN <<>>
  ELSE CHOOSE r \in {IF BlankBeforeNewline(s, 1)
                      THEN StripBlankBeforeNewline(rest)
                      ELSE <<Head(s)>> \o StripBlankBeforeNewline(rest) :
                      rest \in {Tail(s)}} : TRUE

\* const clean = text.replace(...).replace(...).trim()
Normalize(text) ==
  CHOOSE r \in {Trim(s) : s \in {StripBlankBeforeNewline(c) : c \in {StripCR(text)}}} :
    TRUE

\* if (cut < end * 0.6), in integers
BelowThreshold(cut, end) == 10 * cut < 6 * end

\* the cascade of break points of one window
CutPoint(slice, end) ==
  LET c1 == LastIndexOf(slice, <<"\n", "\n">>)
      c2 == IF BelowThreshold(c1, end) THEN LastIndexOf(slice, <<".", " ">>) ELSE c1
      c3 == IF BelowThreshold(c2, end) THEN LastIndexOf(slice, <<" ">>) ELSE c2
  IN IF c3 <= 0 THEN Len(slice) ELSE c3

\* a window one character longer than the budget
WindowEnd_OffByOne(txt, st, budget) ==
  IF st + budget + 1 < Len(txt) THEN st + budget + 1 ELSE Len(txt)

\* let end = Math.min(start + maxChars, clean.length)
WindowEnd(txt, st, budget) ==
  IF st + budget < Len(txt) THEN st + budget ELSE Len(txt)

\* const piece = slice.slice(0, cut).trim()
Piece(txt, st, budget) ==
  LET end == WindowEnd(txt, st, budget)
  IN CHOOSE piece \in
       {Trim(head) :
          head \in {Slice(slice, 0, CutPoint(slice, end)) :
                      slice \in {Slice(txt, st, end)}}} : TRUE

\* the piece length left out of the next scan position
NextStart_NoAdvance(st, pieceLen, overlap) ==
  IF st - overlap > 0 THEN st - overlap ELSE 0

\* start = Math.max(0, nextStart - overlapChars)
NextStart(st, pieceLen, overlap) ==
  LET nextStart == st + pieceLen
  IN IF nextStart - overlap > 0 THEN nextStart - overlap ELSE 0

\* chunkIndex: ++idx
ChunkIndexOf_PreIncrement(i) == i + 1

\* chunkIndex: idx++
ChunkIndexOf(i) == i

\* The loop of chunkText as a function: the chunks it returns, or diverges =
\* TRUE when the scan does not reach the end of the text.  A scan that ends
\* visits every position at most once, so fuel = Len(cl) + 1 is never used up
\* by a scan that ends.  The arguments of each step are bound as values (the
\* one-element sets), so that a step is computed once.
RECURSIVE ChunkScan(_, _, _, _, _, _, _)
ChunkScan(cl, st, i, acc, budget, overlap, fuel) ==
  IF fuel = 0 THEN [diverges |-> TRUE, chunks |-> acc]
  ELSE CHOOSE r \in
         {LET pushed == piece # <<>>
              acc2 == IF pushed
                      THEN Append(acc, [chunkIndex |-> ChunkIndexOf(i), content |-> piece])
                      ELSE acc
              i2 == IF pushed THEN i + 1 ELSE i
          IN IF end >= Len(cl)
             THEN [diverges |-> FALSE, chunks |-> acc2]
             ELSE CHOOSE q \in {ChunkScan(cl, n, j, a, budget, overlap, f) :
                                   n \in {NextStart(st, Len(piece), overlap)},
                                   j \in {i2}, a \in {acc2}, f \in {fuel - 1}} : TRUE :
            end \in {WindowEnd(cl, st, budget)},
            piece \in {Piece(cl, st, budget)}} : TRUE

\* chunkText(t, maxTok, ovTok)
ChunkText(t, maxTok, ovTok) ==
  IF Trim(t) = <<>>
  THEN [diverges |-> FALSE, chunks |-> <<>>]
  ELSE CHOOSE r \in {ChunkScan(cl, 0, 0, <<>>, budget, overlap, Len(cl) + 1) :
                       cl \in {Normalize(t)},
                       budget \in {maxTok * APPROX_CHARS_PER_TOKEN},
                       overlap \in {ovTok * APPROX_CHARS_PER_TOKEN}} : TRUE

VARIABLES
  text,          \* argument of chunkText
  maxTokens,     \* argument of chunkText
  overlapTokens, \* argument of chunkText
  clean,         \* normalized text
  start,         \* scan position
  idx,           \* next chunk index
  chunks,        \* result list
  cpc            \* position in chunkText: "idle", "loop", "done"

VARIABLES
  kv,            \* Redis hashes doc:<id>, one record per document id
  docSet,        \* Redis set docs:set
  index,         \* ids of the vectors in the vector index
  uploads,       \* position of the upload handler that created each document
  autoEmbed,     \* the fire-and-forget embedding request of each upload
  calls,         \* the embedding requests (POST /api/embedding/create)
  tasks,         \* store.update calls in flight
  deletes,       \* position of the DELETE handler of each document
  fixStuck,      \* status of the last fix-stuck response, 0 before the first
  firstRun       \* history: the vector ids of a document after its first successful run

\* The query side and the request-level handlers
VARIABLES
  snip,          \* the last call of makeSnippet: its arguments and its result
  chat,          \* the chat request (POST /api/chat) being served
  uploadReq,     \* the upload request (POST /api/upload) with its list of files
  sweep,         \* the runs of the stuck-document sweep and the documents they found old
  pack,          \* the last call of packContext: its arguments and its result
  search,        \* the search request (POST /api/search) being served
  list           \* the DocumentsList component: its load() calls and fetches

chunkVars == <<text, maxTokens, overlapTokens, clean, start, idx, chunks, cpc>>
queryVars == <<snip, chat, uploadReq, sweep, pack, search, list>>
pipeVars == <<kv, docSet, index, uploads, autoEmbed, calls, tasks, deletes, fixStuck, firstRun>>
vars == <<text, maxTokens, overlapTokens, clean, start, idx, chunks, cpc,
          kv, docSet, index, uploads, autoEmbed, calls, tasks, deletes, fixStuck, firstRun,
          snip, chat, uploadReq, sweep, pack, search, list>>


\* ------------------------------------------------------------------------
\* lib/store.ts
\* ------------------------------------------------------------------------
DocIds == 1..MaxDocs
CallIds == 1..MaxEmbedCalls

\* A hash that does not exist (hgetall returns null).  In a record, an absent
\* field is <<>> (extractedContent), 0 (chunkCount) or "" (errorMessage):
\* store.get maps the empty string and 0 to undefined.
NoDoc ==
  [processingStatus |-> "absent", extractedContent |-> <<>>,
   chunkCount |-> 0, errorMessage |-> ""]

Exists(d) == kv[d].processingStatus # "absent"

\* const next = { ...curr, ...patch }
Merge(curr, patch) ==
  [f \in DOMAIN curr |-> IF f \in DOMAIN patch THEN patch[f] ELSE curr[f]]

\* client.hset(DOC_KEY(id), clean(payload)): fields absent from the payload
\* keep the value the hash has
HSet(old, next) ==
  [processingStatus |-> next.processingStatus,
   extractedContent |-> IF next.extractedContent # <<>>
                        THEN next.extractedContent ELSE old.extractedContent,
   chunkCount |-> IF next.chunkCount # 0 THEN next.chunkCount ELSE old.chunkCount,
   errorMessage |-> IF next.errorMessage # ""
                    THEN next.errorMessage ELSE old.errorMessage]

\* store.update(id, patch) has been called: its hgetall is on the way
NewTask(by, d, patch) ==
  [by |-> by, id |-> d, patch |-> patch, phase |-> "get", curr |-> NoDoc]

TasksOf(by) == {t \in tasks : t.by = by}

\* requests being served: handlers that have not returned, and handlers whose
\* store.update calls are still in flight
Serving ==
  Cardinality({d \in DocIds : uploads[d] \notin {"idle", "done"}})
  + Cardinality({c \in CallIds :
       \/ calls[c].pc \notin {"idle", "done"}
       \/ \E t \in tasks : t.by[1] = "embed" /\ t.by[2] = c})
  + Cardinality({d \in DocIds : deletes[d] = "srem"})

\* requests received so far
RequestsStarted ==
  Cardinality({d \in DocIds : uploads[d] # "idle"})
  + Cardinality({c \in CallIds : calls[c].pc # "idle"})
  + Cardinality({d \in DocIds : deletes[d] # "idle"})
  + (IF fixStuck # 0 THEN 1 ELSE 0)

\* a further request may arrive
CanStart == RequestsStarted < MaxRequests /\ Serving < MaxConcurrent

InitPipe ==
  /\ kv = [d \in DocIds |-> NoDoc]
  /\ docSet = {}
  /\ index = {}
  /\ uploads = [d \in DocIds |-> "idle"]
  /\ autoEmbed = [d \in DocIds |-> "none"]
  /\ calls = [c \in CallIds |->
               [pc |-> "idle", documentId |-> 0, batchSize |-> DEFAULT_BATCH_SIZE,
                targets |-> <<>>, pos |-> 0, chunks |-> <<>>, i |-> 0,
                vectors |-> <<>>, processed |-> <<>>, failures |-> <<>>]]
  /\ tasks = {}
  /\ deletes = [d \in DocIds |-> "idle"]
  /\ fixStuck = 0
  /\ firstRun = [d \in DocIds |-> [done |-> FALSE, ids |-> {}]]

\* no makeSnippet call, chat request, upload request or sweep has been made
NoSnippet ==
  [pc |-> "idle", route |-> "chat", text |-> <<>>, query |-> <<>>, radius |-> 1,
   out |-> <<>>]

\* let filter: Record<string, any> | undefined
NoFilter == [sent |-> FALSE, documentId |-> {}, fileType |-> {}]

NoChat ==
  [pc |-> "idle", question |-> <<>>, k |-> 0, documentIds |-> {}, fileTypes |-> {},
   filter |-> NoFilter, queried |-> FALSE, matches |-> <<>>, sources |-> <<>>, answer |-> "",
   completions |-> 0, status |-> 0]

NoBatch ==
  [pc |-> "idle", files |-> <<>>, pos |-> 0, doc |-> 0, docs |-> <<>>,
   created |-> <<>>, errors |-> <<>>, status |-> 0]

NoSweep == [runs |-> 0, stale |-> {}, status |-> 0]

\* no call of packContext and no search request has been made; the
\* DocumentsList component is not mounted yet
NoPack ==
  [pc |-> "idle", matches |-> <<>>, question |-> <<>>, sources |-> <<>>,
   context |-> <<>>, response |-> <<>>]

NoSearch ==
  [pc |-> "idle", q |-> <<>>, k |-> 0, documentIds |-> {}, fileTypes |-> {},
   filter |-> NoFilter, results |-> <<>>, status |-> 0]

NoList ==
  [mounted |-> FALSE, inflight |-> FALSE, loading |-> FALSE, polling |-> FALSE,
   fetching |-> 0, calls |-> 0, started |-> 0, blocked |-> 0, last |-> "none"]

InitQuery ==
  /\ snip = NoSnippet
  /\ chat = NoChat
  /\ uploadReq = NoBatch
  /\ sweep = NoSweep
  /\ pack = NoPack
  /\ search = NoSearch
  /\ list = NoList

\* store.update, first await: const curr = await this.get(id); if (!curr) return
UpdateGet ==
  /\ \E t \in tasks :
       /\ t.phase = "get"
       /\ tasks' = IF Exists(t.id)
                   THEN (tasks \ {t}) \cup {[t EXCEPT !.phase = "hset", !.curr = kv[t.id]]}
                   ELSE tasks \ {t}
  /\ UNCHANGED <<kv, docSet, index, uploads, autoEmbed, calls, deletes, fixStuck, firstRun>>
  /\ UNCHANGED chunkVars
  /\ UNCHANGED queryVars

\* store.update, second await: the hset of the merged record
HSetOf(t) ==
  /\ t \in tasks
  /\ t.phase = "hset"
  /\ kv' = [kv EXCEPT ![t.id] = HSet(@, Merge(t.curr, t.patch))]
  /\ tasks' = tasks \ {t}
  /\ UNCHANGED <<docSet, index, uploads, autoEmbed, calls, deletes, fixStuck, firstRun>>
  /\ UNCHANGED chunkVars
  /\ UNCHANGED queryVars

UpdateHset == \E t \in tasks : HSetOf(t)

\* ------------------------------------------------------------------------
\* app/api/upload/route.ts, one accepted file
\* ------------------------------------------------------------------------
\* const id = newDocId(); await store.add(base)
UploadAdd ==
  /\ CanStart
  /\ \E d \in DocIds :
       /\ uploads[d] = "idle"
       /\ \A e \in DocIds : e < d => uploads[e] # "idle"
       /\ kv' = [kv EXCEPT ![d] = [NoDoc EXCEPT !.processingStatus = "extracting"]]
       /\ docSet' = docSet \cup {d}
       /\ uploads' = [uploads EXCEPT ![d] = "extracting"]
  /\ UNCHANGED <<index, autoEmbed, calls, tasks, deletes, fixStuck, firstRun>>
  /\ UNCHANGED chunkVars
  /\ UNCHANGED queryVars

\* extractFromBuffer returned: await store.update(id, {extractedContent, "embedding"})
UploadExtracted ==
  /\ \E d \in DocIds, txt \in Contents :
       /\ uploads[d] = "extracting"
       /\ uploads' = [uploads EXCEPT ![d] = "saving"]
       /\ tasks' = tasks \cup
            {NewTask(<<"upload", d, 0>>, d,
                     [extractedContent |-> txt, processingStatus |-> "embedding"])}
  /\ UNCHANGED <<kv, docSet, index, autoEmbed, calls, deletes, fixStuck, firstRun>>
  /\ UNCHANGED chunkVars
  /\ UNCHANGED queryVars

\* extraction threw: await store.update(id, {"error", errorMessage: reason})
UploadExtractFailed ==
  /\ \E d \in DocIds :
       /\ uploads[d] = "extracting"
       /\ uploads' = [uploads EXCEPT ![d] = "failing"]
       /\ tasks' = tasks \cup
            {NewTask(<<"upload", d, 0>>, d,
                     [processingStatus |-> "error", errorMessage |-> "Extraction error"])}
  /\ UNCHANGED <<kv, docSet, index, autoEmbed, calls, deletes, fixStuck, firstRun>>
  /\ UNCHANGED chunkVars
  /\ UNCHANGED queryVars

\* the awaited store.update returned; after a successful extraction the
\* handler fires fetch(/api/embedding/create, {documentId: id}) without awaiting it
UploadFinish ==
  /\ \E d \in DocIds :
       /\ uploads[d] \in {"saving", "failing"}
       /\ TasksOf(<<"upload", d, 0>>) = {}
       /\ uploads' = [uploads EXCEPT ![d] = "done"]
       /\ autoEmbed' = IF uploads[d] = "saving"
                       THEN [autoEmbed EXCEPT ![d] = "pending"]
                       ELSE autoEmbed
  /\ UNCHANGED <<kv, docSet, index, calls, tasks, deletes, fixStuck, firstRun>>
  /\ UNCHANGED chunkVars
  /\ UNCHANGED queryVars

\* ------------------------------------------------------------------------
\* app/api/embedding/create/route.ts
\* ------------------------------------------------------------------------
\* the orders in which smembers may return the ids of S
Orderings(S) ==
  {q \in [1..Cardinality(S) -> S] : \A m, n \in 1..Cardinality(S) : m # n => q[m] # q[n]}

\* the record of a document as store.get / store.list hand it to the route
Snapshot(d) == [id |-> d, extractedContent |-> kv[d].extractedContent]

\* a vector id built from the position in the batch instead of the chunk index
VectorId_BatchLocal(d, chunk, j) == <<d, j>>

\* id: `${doc.id}-${chunk.chunkIndex}`; j is the position of the chunk in its batch
VectorId(d, chunk, j) == <<d, chunk.chunkIndex>>

\* the vector ids of document d in the index
IndexIds(ix, d) == {v \in ix : v[1] = d}

\* target selection: documentId = 0 stands for a request without documentId
EmbedSelect(c, documentId, bs) ==
  /\ calls[c].pc = "idle"
  /\ \A b \in CallIds : b < c => calls[b].pc # "idle"
  /\ \E targets \in IF documentId # 0
                    THEN {IF Exists(documentId) THEN <<Snapshot(documentId)>> ELSE <<>>}
                    ELSE {[n \in DOMAIN q |-> Snapshot(q[n])] :
                            q \in Orderings({d \in docSet :
                                   kv[d].processingStatus = "embedding"})} :
       calls' = [calls EXCEPT ![c] =
                   [@ EXCEPT !.pc = IF targets = <<>> THEN "done" ELSE "doc",
                             !.documentId = documentId,
                             !.batchSize = bs,
                             !.targets = targets,
                             !.pos = 1]]

\* a request arrives while the bounds of the model leave room for it
EmbedBegin(c, documentId, bs) == CanStart /\ EmbedSelect(c, documentId, bs)

\* a client posts to /api/embedding/create, with or without documentId
EmbedRequest ==
  /\ \E c \in CallIds, documentId \in {0} \cup DocIds, bs \in BatchSizes :
       EmbedBegin(c, documentId, bs)
  /\ UNCHANGED <<kv, docSet, index, uploads, autoEmbed, tasks, deletes, fixStuck, firstRun>>
  /\ UNCHANGED chunkVars
  /\ UNCHANGED queryVars

\* the request fired by the upload handler arrives; a request that is lost
\* (.catch logs a warning) stays "pending"
AutoEmbed ==
  /\ \E c \in CallIds, d \in DocIds :
       /\ autoEmbed[d] = "pending"
       /\ EmbedBegin(c, d, DEFAULT_BATCH_SIZE)
       /\ autoEmbed' = [autoEmbed EXCEPT ![d] = "sent"]
  /\ UNCHANGED <<kv, docSet, index, uploads, tasks, deletes, fixStuck, firstRun>>
  /\ UNCHANGED chunkVars
  /\ UNCHANGED queryVars

\* the request fired by the upload handler arrives, whatever else is being served
AutoEmbedArrives ==
  /\ \E c \in CallIds, d \in DocIds :
       /\ autoEmbed[d] = "pending"
       /\ EmbedSelect(c, d, DEFAULT_BATCH_SIZE)
       /\ autoEmbed' = [autoEmbed EXCEPT ![d] = "sent"]
  /\ UNCHANGED <<kv, docSet, index, uploads, tasks, deletes, fixStuck, firstRun>>
  /\ UNCHANGED chunkVars
  /\ UNCHANGED queryVars

\* the call record after the loop moved on to the next target
NextDoc(call) ==
  [call EXCEPT !.pos = @ + 1,
               !.pc = IF call.pos + 1 > Len(call.targets) THEN "done" ELSE "doc",
               !.chunks = <<>>, !.i = 0, !.vectors = <<>>]

\* catch (e): store.update(doc.id, {"error", errorMessage: reason}), not
\* awaited; failures.push
Fail(c, reason) ==
  LET call == calls[c]
      doc == call.targets[call.pos]
  IN /\ tasks' = tasks \cup
          {NewTask(<<"embed", c, call.pos>>, doc.id,
                   [processingStatus |-> "error", errorMessage |-> reason])}
     /\ calls' = [calls EXCEPT ![c] =
                    [NextDoc(call) EXCEPT !.failures =
                       Append(call.failures, [id |-> doc.id, reason |-> reason])]]

\* chunkText(doc.extractedContent, 1000, 100) for the texts of the model,
\* with the scaled budget
EmbedChunking ==
  {[text |-> t, result |-> ChunkText(t, EmbedMaxTokens, EmbedOverlapTokens)] :
     t \in Contents}

ChunkingOf(t) == (CHOOSE p \in EmbedChunking : p.text = t).result

\* start of a loop iteration: the content check and the chunking
EmbedDoc ==
  /\ \E c \in CallIds :
       /\ calls[c].pc = "doc"
       /\ LET doc == calls[c].targets[calls[c].pos]
          IN IF Trim(doc.extractedContent) = <<>>
             THEN Fail(c, "Document has no extractedContent")
             ELSE \E r \in {ChunkingOf(doc.extractedContent)} :
                    IF r.diverges
                    THEN /\ calls' = [calls EXCEPT ![c].pc = "hung"]
                         /\ tasks' = tasks
                    ELSE IF r.chunks = <<>>
                    THEN Fail(c, "No chunks produced")
                    ELSE /\ calls' = [calls EXCEPT ![c].pc = "embed",
                                                   ![c].chunks = r.chunks,
                                                   ![c].i = 0,
                                                   ![c].vectors = <<>>]
                         /\ tasks' = tasks
  /\ UNCHANGED <<kv, docSet, index, uploads, autoEmbed, deletes, fixStuck, firstRun>>
  /\ UNCHANGED chunkVars
  /\ UNCHANGED queryVars

\* openai.embeddings.create answered for the batch at offset i
EmbedBatch ==
  /\ \E c \in CallIds, ok \in BOOLEAN :
       /\ calls[c].pc = "embed"
       /\ LET call == calls[c]
              doc == call.targets[call.pos]
              batch == Slice(call.chunks, call.i, call.i + call.batchSize)
              next == call.i + call.batchSize
          IN IF ok
             THEN /\ calls' = [calls EXCEPT ![c] =
                       [call EXCEPT
                          !.vectors = @ \o [j \in 1..Len(batch) |-> VectorId(doc.id, batch[j], j - 1)],
                          !.i = next,
                          !.pc = IF next < Len(call.chunks) THEN "embed" ELSE "upsert"]]
                  /\ tasks' = tasks
             ELSE Fail(c, "embedding failed")
  /\ UNCHANGED <<kv, docSet, index, uploads, autoEmbed, deletes, fixStuck, firstRun>>
  /\ UNCHANGED chunkVars
  /\ UNCHANGED queryVars

\* an upsert that leaves out the first vector
Upserted_WithoutFirst(ix, vectors) == ix \cup {vectors[n] : n \in 2..Len(vectors)}

\* the index after index.upsert(vectors)
Upserted(ix, vectors) == ix \cup {vectors[n] : n \in 1..Len(vectors)}

\* index.upsert(vectors) answered; on success store.update(doc.id,
\* {chunkCount, "completed"}) is called without await and processed.push follows
EmbedUpsert ==
  /\ \E c \in CallIds, ok \in BOOLEAN :
       /\ calls[c].pc = "upsert"
       /\ LET call == calls[c]
              doc == call.targets[call.pos]
              upserted == Upserted(index, call.vectors)
          IN IF ok
             THEN /\ index' = upserted
                  /\ tasks' = tasks \cup
                       {NewTask(<<"embed", c, call.pos>>, doc.id,
                                [chunkCount |-> Len(call.chunks),
                                 processingStatus |-> "completed"])}
                  /\ calls' = [calls EXCEPT ![c] =
                       [NextDoc(call) EXCEPT !.processed =
                          Append(call.processed, [id |-> doc.id, chunks |-> Len(call.chunks)])]]
                  /\ firstRun' = IF firstRun[doc.id].done THEN firstRun
                                 ELSE [firstRun EXCEPT ![doc.id] =
                                         [done |-> TRUE, ids |-> IndexIds(upserted, doc.id)]]
             ELSE /\ Fail(c, "upsert failed")
                  /\ UNCHANGED <<index, firstRun>>
  /\ UNCHANGED <<kv, docSet, uploads, autoEmbed, deletes, fixStuck>>
  /\ UNCHANGED chunkVars
  /\ UNCHANGED queryVars

\* ------------------------------------------------------------------------
\* app/api/documents/[id]/route.ts, DELETE
\* ------------------------------------------------------------------------
\* store.get found the document; store.delete: await client.del(DOC_KEY(id))
DeleteDel ==
  /\ CanStart
  /\ \E d \in DocIds :
       /\ deletes[d] = "idle"
       /\ Exists(d)
       /\ kv' = [kv EXCEPT ![d] = NoDoc]
       /\ deletes' = [deletes EXCEPT ![d] = "srem"]
  /\ UNCHANGED <<docSet, index, uploads, autoEmbed, calls, tasks, fixStuck, firstRun>>
  /\ UNCHANGED chunkVars
  /\ UNCHANGED queryVars

\* store.delete: await client.srem(SET_KEY, id)
DeleteSrem ==
  /\ \E d \in DocIds :
       /\ deletes[d] = "srem"
       /\ docSet' = docSet \ {d}
       /\ deletes' = [deletes EXCEPT ![d] = "done"]
  /\ UNCHANGED <<kv, index, uploads, autoEmbed, calls, tasks, fixStuck, firstRun>>
  /\ UNCHANGED chunkVars
  /\ UNCHANGED queryVars

\* ------------------------------------------------------------------------
\* app/api/fix-stuck/route.ts
\* ------------------------------------------------------------------------
\* const docs = store.list() is a Promise (no await): docs.filter throws a
\* TypeError, the catch answers 500 and no document is touched
FixStuck ==
  /\ CanStart
  /\ fixStuck = 0
  /\ fixStuck' = 500
  /\ UNCHANGED <<kv, docSet, index, uploads, autoEmbed, calls, tasks, deletes, firstRun>>
  /\ UNCHANGED chunkVars
  /\ UNCHANGED queryVars

Next ==
  \/ UploadAdd
  \/ UploadExtracted
  \/ UploadExtractFailed
  \/ UploadFinish
  \/ UpdateGet
  \/ UpdateHset
  \/ EmbedRequest
  \/ AutoEmbed
  \/ EmbedDoc
  \/ EmbedBatch
  \/ EmbedUpsert
  \/ DeleteDel
  \/ DeleteSrem
  \/ FixStuck

InitStore ==
  /\ text = <<>>
  /\ maxTokens = 1
  /\ overlapTokens = 0
  /\ clean = <<>>
  /\ start = 0
  /\ idx = 0
  /\ chunks = <<>>
  /\ cpc = "idle"
  /\ InitPipe
  /\ InitQuery

Init == InitStore

Spec == Init /\ [][Next]_vars

\* Handlers that were started keep running: extraction returns or throws,
\* Redis and the providers answer.  The arrival of requests is not forced.
Progress ==
  /\ WF_vars(UploadExtracted \/ UploadExtractFailed)
  /\ WF_vars(UploadFinish)
  /\ WF_vars(UpdateGet)
  /\ WF_vars(UpdateHset)
  /\ WF_vars(EmbedDoc)
  /\ WF_vars(EmbedBatch)
  /\ WF_vars(EmbedUpsert)
  /\ WF_vars(DeleteSrem)

FairSpec == Init /\ [][Next]_vars /\ Progress

\* Uploads and the processing they start by themselves, without any call of
\* a client to the embedding, delete or maintenance routes; the embedding
\* request of an upload is delivered
NextAuto ==
  \/ UploadAdd
  \/ UploadExtracted
  \/ UploadExtractFailed
  \/ UploadFinish
  \/ UpdateGet
  \/ UpdateHset
  \/ AutoEmbedArrives
  \/ EmbedDoc
  \/ EmbedBatch
  \/ EmbedUpsert

FairSpecAuto == Init /\ [][NextAuto]_vars /\ Progress /\ WF_vars(AutoEmbedArrives)

\* ------------------------------------------------------------------------
\* app/api/fix-stuck/route.ts with the age of the documents
\* ------------------------------------------------------------------------
STUCK_MESSAGE == "Manual intervention - processing was stuck"

\* the handler awaits store.list() and filters the array of records
ListResult_Awaited == "array"

\* const docs = store.list(): without await, docs is the Promise
ListResult == "promise"

\* doc.processingStatus === "extracting" && uploadDate < Date.now() - 2 min;
\* stale is the set of documents uploaded more than 2 minutes before the run
IsStuck(d, stale) == kv[d].processingStatus = "extracting" /\ d \in stale

\* documents that have an uploadDate
Uploaded == {d \in DocIds : uploads[d] # "idle"}

\* One run of POST /api/fix-stuck.  docs.filter exists on an array only: on
\* the Promise the call throws a TypeError and the catch answers 500.  On an
\* array the handler calls store.update, without await, for every stuck
\* document and answers 200.  A document that was older than 2 minutes at
\* one run is older than 2 minutes at the next.
FixStuckRun ==
  /\ sweep.runs < MaxSweeps
  /\ \E stale \in SUBSET Uploaded :
       /\ sweep.stale \subseteq stale
       /\ IF ListResult # "array"
          THEN /\ sweep' = [runs |-> sweep.runs + 1, stale |-> stale, status |-> 500]
               /\ tasks' = tasks
          ELSE /\ sweep' = [runs |-> sweep.runs + 1, stale |-> stale, status |-> 200]
               /\ tasks' = tasks \cup
                    {NewTask(<<"sweep", sweep.runs + 1, d>>, d,
                             [processingStatus |-> "error",
                              errorMessage |-> STUCK_MESSAGE]) :
                       d \in {e \in DocIds : Exists(e) /\ IsStuck(e, stale)}}
  /\ UNCHANGED <<kv, docSet, index, uploads, autoEmbed, calls, deletes, fixStuck, firstRun>>
  /\ UNCHANGED chunkVars
  /\ UNCHANGED <<snip, chat, uploadReq, pack, search, list>>

\* uploads, their automatic processing, and runs of the stuck-document sweep
NextFixStuck ==
  \/ NextAuto
  \/ FixStuckRun

SpecFixStuck == Init /\ [][NextFixStuck]_vars

\* ------------------------------------------------------------------------
\* chunkText as a step machine
\* ------------------------------------------------------------------------
maxChars == maxTokens * APPROX_CHARS_PER_TOKEN
overlapChars == overlapTokens * APPROX_CHARS_PER_TOKEN

Texts == UNION {[1..n -> Alphabet] : n \in 0..MaxLen}

LiveTexts == UNION {[1..n -> LiveAlphabet] : n \in 0..MaxLen}

\* no call of chunkText has been made yet
InitChunk ==
  /\ text = <<>>
  /\ maxTokens = 1
  /\ overlapTokens = 0
  /\ clean = <<>>
  /\ start = 0
  /\ idx = 0
  /\ chunks = <<>>
  /\ cpc = "idle"
  /\ InitPipe
  /\ InitQuery

\* chunkText(t, m, o): the early return and the set-up before the loop
ChunkEnter(t, m, o) ==
  /\ cpc = "idle"
  /\ text' = t
  /\ maxTokens' = m
  /\ overlapTokens' = o
  /\ IF Trim(t) = <<>>
     THEN /\ cpc' = "done"
          /\ clean' = clean
     ELSE /\ cpc' = "loop"
          /\ clean' = Normalize(t)
  /\ start' = 0
  /\ idx' = 0
  /\ chunks' = <<>>
  /\ UNCHANGED pipeVars
  /\ UNCHANGED queryVars

ChunkCall(texts) ==
  /\ cpc = "idle"
  /\ \E t \in texts, m \in 1..MaxTokensBound, o \in 0..MaxOverlapTokens :
       ChunkEnter(t, m, o)

\* one evaluation of the while condition and, if it holds, of the loop body
ChunkLoop ==
  /\ cpc = "loop"
  /\ Len(chunks) < MaxChunks
  /\ IF start < Len(clean)
     THEN \E end \in {WindowEnd(clean, start, maxChars)} :
          \E slice \in {Slice(clean, start, end)} :
          \E cut \in {CutPoint(slice, end)} :
          \E piece \in {Trim(Slice(slice, 0, cut))} :
            /\ IF piece # <<>>
               THEN /\ chunks' = Append(chunks, [chunkIndex |-> ChunkIndexOf(idx), content |-> piece])
                    /\ idx' = idx + 1
               ELSE UNCHANGED <<chunks, idx>>
            /\ IF end >= Len(clean)
               THEN /\ cpc' = "done"
                    /\ start' = start
               ELSE /\ cpc' = "loop"
                    /\ start' = NextStart(start, Len(piece), overlapChars)
     ELSE /\ cpc' = "done"
          /\ UNCHANGED <<start, idx, chunks>>
  /\ UNCHANGED <<text, maxTokens, overlapTokens, clean>>
  /\ UNCHANGED pipeVars
  /\ UNCHANGED queryVars

NextChunk == ChunkCall(Texts) \/ ChunkLoop
NextChunkLive == ChunkCall(LiveTexts) \/ ChunkLoop

SpecChunk == InitChunk /\ [][NextChunk]_vars

\* calls on longer texts without line breaks, with the larger budget, so
\* that a full window begins after position 0
LongTexts == UNION {[1..n -> LiveAlphabet] : n \in 0..MaxLongLen}

ChunkCallLong ==
  /\ cpc = "idle"
  /\ \E t \in LongTexts, o \in 0..MaxOverlapTokens : ChunkEnter(t, MaxTokensBound, o)

NextChunkLong == ChunkCallLong \/ ChunkLoop

SpecChunkLong == InitChunk /\ [][NextChunkLong]_vars
\* a started call keeps running: the loop is synchronous code
FairSpecChunk == InitChunk /\ [][NextChunkLive]_vars /\ WF_vars(ChunkLoop)

\* ------------------------------------------------------------------------
\* makeSnippet (app/api/chat/route.ts and app/api/search/route.ts)
\* ------------------------------------------------------------------------
\* the one character U+2026 (horizontal ellipsis)
ELLIPSIS == "..."

MAX_TERMS == 5

\* String.prototype.toLowerCase on the letters of the model
LowerChar(c) ==
  CASE c = "A" -> "a" [] c = "B" -> "b" [] c = "T" -> "t" [] c = "X" -> "x"
    [] OTHER -> c

ToLower(s) == [i \in 1..Len(s) |-> LowerChar(s[i])]

\* s.split(/\s+/).filter(Boolean): the maximal runs of non-whitespace characters
RECURSIVE SplitWords(_, _, _)
SplitWords(s, i, word) ==
  IF i > Len(s)
  THEN IF word = <<>> THEN <<>> ELSE <<word>>
  ELSE IF s[i] \in WhiteSpace
  THEN (IF word = <<>> THEN <<>> ELSE <<word>>) \o SplitWords(s, i + 1, <<>>)
  ELSE SplitWords(s, i + 1, Append(word, s[i]))

\* hay.indexOf(t): 0-based position of the first occurrence, -1 if none
IndexOf(hay, t) ==
  LET hits == {i \in 0..(Len(hay) - Len(t)) : Slice(hay, i, i + Len(t)) = t}
  IN IF hits = {} THEN -1 ELSE Min(hits)

\* the position of the first term, in query order, that occurs in hay
RECURSIVE FirstHit(_, _, _)
FirstHit(hay, terms, n) ==
  IF n > Len(terms) THEN -1
  ELSE IF IndexOf(hay, terms[n]) >= 0 THEN IndexOf(hay, terms[n])
  ELSE FirstHit(hay, terms, n + 1)

\* text.length > radius * 2 ? text.slice(0, radius * 2) + "..." : text
Truncated(t, radius) ==
  IF Len(t) > radius * 2 THEN Append(Slice(t, 0, radius * 2), ELLIPSIS) ELSE t

\* const end = Math.min(text.length, idx + terms[0].length + radius)
SnippetEnd(t, at, terms, radius) == Min({Len(t), at + Len(terms[1]) + radius})

\* the window around the hit at position `at`, with its ellipsis markers
Windowed(t, at, terms, radius) ==
  LET from == Max({0, at - radius})
      to == SnippetEnd(t, at, terms, radius)
      core == Trim(Slice(t, from, to))
      left == IF from > 0 THEN <<ELLIPSIS>> \o core ELSE core
  IN IF to < Len(t) THEN Append(left, ELLIPSIS) ELSE left

\* makeSnippet of the chat route
MakeSnippet(t, query, radius) ==
  IF t = <<>> THEN <<>>
  ELSE LET terms == Slice(SplitWords(ToLower(query), 1, <<>>), 0, MAX_TERMS)
           at == FirstHit(ToLower(t), terms, 1)
       IN IF terms = <<>> THEN Truncated(t, radius)
          ELSE IF at < 0 THEN Truncated(t, radius)
          ELSE Windowed(t, at, terms, radius)

\* makeSnippet of the search route: all the terms of the query are tried
MakeSnippetSearch(t, query, radius) ==
  IF t = <<>> THEN <<>>
  ELSE LET terms == SplitWords(ToLower(query), 1, <<>>)
           at == FirstHit(ToLower(t), terms, 1)
       IN IF at < 0 THEN Truncated(t, radius)
          ELSE Windowed(t, at, terms, radius)

SnipTexts == UNION {[1..n -> SnipAlphabet] : n \in 0..MaxSnipLen}
SnipQueries == UNION {[1..n -> SnipAlphabet] : n \in 0..MaxQueryLen}

\* one call of makeSnippet, by either route
SnippetCall ==
  /\ snip.pc = "idle"
  /\ \E route \in {"chat", "search"}, t \in SnipTexts, q \in SnipQueries,
        radius \in 1..MaxRadius :
       snip' = [pc |-> "done", route |-> route, text |-> t, query |-> q,
                radius |-> radius,
                out |-> IF route = "chat" THEN MakeSnippet(t, q, radius)
                        ELSE MakeSnippetSearch(t, q, radius)]
  /\ UNCHANGED <<chat, uploadReq, sweep, pack, search, list>>
  /\ UNCHANGED chunkVars
  /\ UNCHANGED pipeVars

NextSnippet == SnippetCall

SpecSnippet == Init /\ [][NextSnippet]_vars

\* ------------------------------------------------------------------------
\* app/api/chat/route.ts
\* ------------------------------------------------------------------------
\* best < 0.15, in hundredths
GATE_SCORE == 15

REFUSAL == "I don't have enough information in the uploaded documents to answer that."

FileTypes == {"text/plain", "application/pdf"}

\* fileType and filename of the upload that created document d
FileTypeOf(d) == IF d % 2 = 1 THEN "text/plain" ELSE "application/pdf"

FilenameOf(d) ==
  IF d % 2 = 1 THEN <<"d", ".", "t", "x", "t">> ELSE <<"d", ".", "p", "d", "f">>

\* the chunks the embedding route makes of a text
EmbedChunks(txt) == ChunkText(txt, EmbedMaxTokens, EmbedOverlapTokens).chunks

\* the metadata the embedding route stored with vector v = <<documentId, chunkIndex>>
MetadataOf(v) ==
  [documentId |-> v[1], filename |-> FilenameOf(v[1]), fileType |-> FileTypeOf(v[1]),
   chunkIndex |-> v[2],
   content |-> LET cs == EmbedChunks(kv[v[1]].extractedContent)
               IN IF v[2] + 1 \in DOMAIN cs THEN cs[v[2] + 1].content ELSE <<>>]

\* a filter that leaves the document ids out
QueryFilter_WithoutIds(documentIds, fileTypes) ==
  [sent |-> fileTypes # {}, documentId |-> {}, fileType |-> fileTypes]

\* the filter both query routes build: undefined when neither list has an
\* element, else an $in condition for each list that has one
QueryFilter(documentIds, fileTypes) ==
  [sent |-> documentIds # {} \/ fileTypes # {},
   documentId |-> documentIds, fileType |-> fileTypes]

\* an index that honours $in: the metadata of v passes every condition of
\* the filter
Honours(filter, v) ==
  filter.sent =>
    /\ (filter.documentId # {} => v[1] \in filter.documentId)
    /\ (filter.fileType # {} => FileTypeOf(v[1]) \in filter.fileType)

\* the vectors the filter of a query lets through
Candidates(ix, documentIds, fileTypes) ==
  {v \in ix : Honours(QueryFilter(documentIds, fileTypes), v)}

\* topK: Math.max(k, 8), with the scaled minimum
TopK(k) == Max({k, MinTopK})

\* the answers index.query may give: the topK best of the vectors cand,
\* best first, with whatever similarity the provider computes
IndexQuery(cand, topK) ==
  LET n == Min({topK, Cardinality(cand)})
  IN {[j \in 1..n |-> [id |-> vs[j], score |-> sc[j], metadata |-> MetadataOf(vs[j])]] :
        vs \in {q \in [1..n -> cand] : \A a, b \in 1..n : a # b => q[a] # q[b]},
        sc \in {q \in [1..n -> Scores] : \A a, b \in 1..n : a < b => q[a] >= q[b]}}

\* the matches of the chat route
QueryResults(ix, documentIds, fileTypes, k) ==
  IndexQuery(Candidates(ix, documentIds, fileTypes), TopK(k))

\* the matches of the search route: topK: k
SearchMatches(ix, documentIds, fileTypes, k) ==
  IndexQuery(Candidates(ix, documentIds, fileTypes), k)

\* matches[0]?.score ?? 0
Best(matches) == IF matches = <<>> THEN 0 ELSE matches[1].score

\* a gate that also refuses a best score of exactly 0.15
GateFires_Inclusive(matches) == matches = <<>> \/ Best(matches) <= GATE_SCORE

\* if (!matches.length || best < 0.15)
GateFires(matches) == matches = <<>> \/ Best(matches) < GATE_SCORE

\* the number of decimal digits of a source index or chunk index
Digits(n) == IF n < 10 THEN 1 ELSE 2

\* length of `[${idx}] ${filename} (chunk ${chunkIndex}): ${snippet}\n\n`
LineLength(i, m, snippet) ==
  1 + Digits(i) + 2 + Len(m.metadata.filename) + 8 + Digits(m.metadata.chunkIndex)
    + 3 + Len(snippet) + 2

\* the decimal digits of a source index or chunk index below 100
DigitChars == <<"0", "1", "2", "3", "4", "5", "6", "7", "8", "9">>

NumberText(n) ==
  IF n < 10 THEN <<DigitChars[n + 1]>>
  ELSE <<DigitChars[(n \div 10) + 1], DigitChars[(n % 10) + 1]>>

\* `[${idx}] ${filename} (chunk ${chunkIndex}): ${snippet}\n\n`
CitationLine(i, filename, chunkIndex, snippet) ==
  <<"[">> \o NumberText(i) \o <<"]", " ">> \o filename
    \o <<" ", "(", "c", "h", "u", "n", "k", " ">> \o NumberText(chunkIndex)
    \o <<")", ":", " ">> \o snippet \o <<"\n", "\n">>

\* a budget test made before the line is counted
Overflows_WithoutLine(ctx, line, budget) == Len(ctx) > budget

\* if (ctx.length + line.length > charBudget) break
Overflows(ctx, line, budget) == Len(ctx) + Len(line) > budget

\* a counter that also counts the matches that are skipped
IdxAfterSkip_Counted(i) == i + 1

\* if (!content) continue: idx is left as it is
IdxAfterSkip(i) == i

\* packContext: the loop over the matches from position n on, with the
\* local variables ctx, idx and sources
RECURSIVE PackFrom(_, _, _, _, _, _, _)
PackFrom(matches, n, question, budget, ctx, i, sources) ==
  IF n > Len(matches) THEN [sources |-> sources, ctx |-> ctx]
  ELSE LET m == matches[n]
           snippet == MakeSnippet(m.metadata.content, question, ChatRadius)
           line == CitationLine(i, m.metadata.filename, m.metadata.chunkIndex, snippet)
       IN IF m.metadata.content = <<>>
          THEN PackFrom(matches, n + 1, question, budget, ctx, IdxAfterSkip(i), sources)
          ELSE IF Overflows(ctx, line, budget)
          THEN [sources |-> sources, ctx |-> ctx]
          ELSE PackFrom(matches, n + 1, question, budget, ctx \o line, i + 1,
                        Append(sources,
                               [idx |-> i, documentId |-> m.metadata.documentId,
                                filename |-> m.metadata.filename,
                                chunkIndex |-> m.metadata.chunkIndex,
                                snippet |-> snippet, score |-> m.score]))

\* return { sources, context: ctx.trim() }
PackContext(matches, question, budget) ==
  LET r == PackFrom(matches, 1, question, budget, <<>>, 1, <<>>)
  IN [sources |-> r.sources, context |-> Trim(r.ctx)]

\* sources.map((s) => ({documentId, filename, chunkIndex, snippet, score}))
ResponseSources(sources) ==
  [j \in 1..Len(sources) |->
     [documentId |-> sources[j].documentId, filename |-> sources[j].filename,
      chunkIndex |-> sources[j].chunkIndex, snippet |-> sources[j].snippet,
      score |-> sources[j].score]]

\* the matches a call of packContext may get: distinct vectors, best first,
\* each with the content its metadata holds
PackContents == {<<>>, <<"a">>, <<"a", "a", "a", "a">>}

PackMatch(v, content) ==
  [id |-> v, score |-> Max(Scores),
   metadata |-> [documentId |-> v[1], filename |-> FilenameOf(v[1]),
                 fileType |-> FileTypeOf(v[1]), chunkIndex |-> v[2],
                 content |-> content]]

PackMatches ==
  UNION {{[j \in 1..n |-> PackMatch(vs[j], cs[j])] :
            vs \in {q \in [1..n -> DocIds \X {0, 1}] :
                      \A a, b \in 1..n : a # b => q[a] # q[b]},
            cs \in [1..n -> PackContents]} : n \in 0..MaxMatches}

\* one call of packContext, as the chat route makes it, and the sources of
\* the response
PackCall ==
  /\ pack.pc = "idle"
  /\ \E matches \in PackMatches, question \in ChatQuestions :
       \E r \in {PackContext(matches, question, ChatCharBudget)} :
         pack' = [pc |-> "done", matches |-> matches, question |-> question,
                  sources |-> r.sources, context |-> r.context,
                  response |-> ResponseSources(r.sources)]
  /\ UNCHANGED <<snip, chat, uploadReq, sweep, search, list>>
  /\ UNCHANGED chunkVars
  /\ UNCHANGED pipeVars

NextPack == PackCall

SpecPack == Init /\ [][NextPack]_vars

\* a client posts a question; a blank question is answered 400
ChatRequest ==
  /\ chat.pc = "idle"
  /\ search.pc = "idle"
  /\ \E blank \in BOOLEAN, q \in ChatQuestions, k \in ChatKs,
        documentIds \in SUBSET DocIds, fileTypes \in SUBSET FileTypes :
       chat' = IF blank
               THEN [NoChat EXCEPT !.pc = "done", !.status = 400]
               ELSE [NoChat EXCEPT !.pc = "embed", !.question = q, !.k = k,
                                   !.documentIds = documentIds,
                                   !.fileTypes = fileTypes]
  /\ UNCHANGED <<snip, uploadReq, sweep, pack, search, list>>
  /\ UNCHANGED chunkVars
  /\ UNCHANGED pipeVars

\* openai.embeddings.create answered for the question, or threw
ChatEmbedded ==
  /\ chat.pc = "embed"
  /\ \E ok \in BOOLEAN :
       chat' = IF ok THEN [chat EXCEPT !.pc = "query"]
               ELSE [chat EXCEPT !.pc = "done", !.status = 500]
  /\ UNCHANGED <<snip, uploadReq, sweep, pack, search, list>>
  /\ UNCHANGED chunkVars
  /\ UNCHANGED pipeVars

\* index.query answered (or threw): the confidence gate, then packContext
\* and the call of the completion provider
ChatQueried ==
  /\ chat.pc = "query"
  /\ \/ chat' = [chat EXCEPT !.pc = "done", !.status = 500,
                              !.filter = QueryFilter(chat.documentIds, chat.fileTypes)]
     \/ \E matches \in QueryResults(index, chat.documentIds, chat.fileTypes, chat.k) :
          chat' = IF GateFires(matches)
                  THEN [chat EXCEPT !.pc = "done", !.queried = TRUE,
                                    !.filter = QueryFilter(chat.documentIds, chat.fileTypes),
                                    !.matches = matches, !.answer = REFUSAL,
                                    !.sources = <<>>, !.status = 200]
                  ELSE [chat EXCEPT !.pc = "complete", !.queried = TRUE,
                                    !.filter = QueryFilter(chat.documentIds, chat.fileTypes),
                                    !.matches = matches,
                                    !.sources = PackContext(matches, chat.question,
                                                            ChatCharBudget).sources,
                                    !.completions = @ + 1]
  /\ UNCHANGED <<snip, uploadReq, sweep, pack, search, list>>
  /\ UNCHANGED chunkVars
  /\ UNCHANGED pipeVars

\* openai.chat.completions.create answered, with or without content, or threw
ChatCompleted ==
  /\ chat.pc = "complete"
  /\ \E outcome \in {"answer", "empty", "throws"} :
       chat' = IF outcome = "throws"
               THEN [chat EXCEPT !.pc = "done", !.status = 500, !.sources = <<>>]
               ELSE [chat EXCEPT !.pc = "done", !.status = 200,
                                 !.answer = IF outcome = "answer" THEN "generated" ELSE ""]
  /\ UNCHANGED <<snip, uploadReq, sweep, pack, search, list>>
  /\ UNCHANGED chunkVars
  /\ UNCHANGED pipeVars

\* the store, the index and the finished handlers after the first n uploads
\* went through extraction and their automatic embedding request
Ingested(n) ==
  LET cs == EmbedChunks(EmbeddedContent)
      ids(d) == {VectorId(d, cs[j], j - 1) : j \in 1..Len(cs)}
  IN /\ kv = [d \in DocIds |->
               IF d <= n
               THEN [processingStatus |-> "completed", extractedContent |-> EmbeddedContent,
                     chunkCount |-> Len(cs), errorMessage |-> ""]
               ELSE NoDoc]
     /\ docSet = 1..n
     /\ index = UNION {ids(d) : d \in 1..n}
     /\ uploads = [d \in DocIds |-> IF d <= n THEN "done" ELSE "idle"]
     /\ autoEmbed = [d \in DocIds |-> IF d <= n THEN "sent" ELSE "none"]
     /\ calls = [c \in CallIds |->
                  IF c <= n
                  THEN [pc |-> "done", documentId |-> c, batchSize |-> DEFAULT_BATCH_SIZE,
                        targets |-> <<[id |-> c, extractedContent |-> EmbeddedContent]>>,
                        pos |-> 2, chunks |-> <<>>, i |-> 0, vectors |-> <<>>,
                        processed |-> <<[id |-> c, chunks |-> Len(cs)]>>,
                        failures |-> <<>>]
                  ELSE [pc |-> "idle", documentId |-> 0, batchSize |-> DEFAULT_BATCH_SIZE,
                        targets |-> <<>>, pos |-> 0, chunks |-> <<>>, i |-> 0,
                        vectors |-> <<>>, processed |-> <<>>, failures |-> <<>>]]
     /\ tasks = {}
     /\ deletes = [d \in DocIds |-> "idle"]
     /\ fixStuck = 0
     /\ firstRun = [d \in DocIds |->
                     IF d <= n THEN [done |-> TRUE, ids |-> ids(d)]
                     ELSE [done |-> FALSE, ids |-> {}]]

InitChat ==
  /\ text = <<>>
  /\ maxTokens = 1
  /\ overlapTokens = 0
  /\ clean = <<>>
  /\ start = 0
  /\ idx = 0
  /\ chunks = <<>>
  /\ cpc = "idle"
  /\ \E n \in 0..Min({MaxDocs, MaxEmbedCalls}) : Ingested(n)
  /\ InitQuery

NextChat ==
  \/ ChatRequest
  \/ ChatEmbedded
  \/ ChatQueried
  \/ ChatCompleted

SpecChat == InitChat /\ [][NextChat]_vars

\* ------------------------------------------------------------------------
\* app/api/search/route.ts
\* ------------------------------------------------------------------------
\* the results the search route makes of the matches
SearchResults(matches, q) ==
  [j \in 1..Len(matches) |->
     [id |-> matches[j].id, score |-> matches[j].score,
      documentId |-> matches[j].metadata.documentId,
      filename |-> matches[j].metadata.filename,
      fileType |-> matches[j].metadata.fileType,
      snippet |-> MakeSnippetSearch(matches[j].metadata.content, q, SearchRadius),
      chunkIndex |-> matches[j].metadata.chunkIndex,
      chunkContent |-> matches[j].metadata.content]]

\* a client posts a query; a blank q is answered 400. The two query routes
\* share no state, so one request is followed at a time
SearchRequest ==
  /\ search.pc = "idle"
  /\ chat.pc = "idle"
  /\ \E blank \in BOOLEAN, q \in ChatQuestions, k \in ChatKs,
        documentIds \in SUBSET DocIds, fileTypes \in SUBSET FileTypes :
       search' = IF blank
                 THEN [NoSearch EXCEPT !.pc = "done", !.status = 400]
                 ELSE [NoSearch EXCEPT !.pc = "embed", !.q = q, !.k = k,
                                       !.documentIds = documentIds,
                                       !.fileTypes = fileTypes]
  /\ UNCHANGED <<snip, chat, uploadReq, sweep, pack, list>>
  /\ UNCHANGED chunkVars
  /\ UNCHANGED pipeVars

\* openai.embeddings.create answered for the query, or threw; the filter is
\* built after the answer
SearchEmbedded ==
  /\ search.pc = "embed"
  /\ \E ok \in BOOLEAN :
       search' = IF ok
                 THEN [search EXCEPT !.pc = "query",
                                     !.filter = QueryFilter(search.documentIds,
                                                            search.fileTypes)]
                 ELSE [search EXCEPT !.pc = "done", !.status = 500]
  /\ UNCHANGED <<snip, chat, uploadReq, sweep, pack, list>>
  /\ UNCHANGED chunkVars
  /\ UNCHANGED pipeVars

\* index.query answered, or threw
SearchQueried ==
  /\ search.pc = "query"
  /\ \/ search' = [search EXCEPT !.pc = "done", !.status = 500]
     \/ \E matches \in SearchMatches(index, search.documentIds, search.fileTypes,
                                      search.k) :
          search' = [search EXCEPT !.pc = "done", !.status = 200,
                                   !.results = SearchResults(matches, search.q)]
  /\ UNCHANGED <<snip, chat, uploadReq, sweep, pack, list>>
  /\ UNCHANGED chunkVars
  /\ UNCHANGED pipeVars

NextSearch ==
  \/ SearchRequest
  \/ SearchEmbedded
  \/ SearchQueried

NextQuery == NextChat \/ NextSearch

SpecQuery == InitChat /\ [][NextQuery]_vars

\* ------------------------------------------------------------------------
\* lib/validate.ts and the file loop of app/api/upload/route.ts
\* ------------------------------------------------------------------------
MAX_FILE_BYTES == 10485760

ALLOWED_EXT ==
  { <<"p", "d", "f">>, <<"p", "n", "g">>, <<"j", "p", "g">>, <<"j", "p", "e", "g">>,
    <<"s", "v", "g">>, <<"t", "x", "t">>, <<"c", "s", "v">>, <<"d", "o", "c", "x">> }

ALLOWED_MIME ==
  { "application/pdf", "image/png", "image/jpeg", "image/svg+xml", "text/plain",
    "text/csv",
    "application/vnd.openxmlformats-officedocument.wordprocessingml.document" }

\* fileExt: the part of the lower-cased name after its last ".", "" without a "."
FileExt(name) ==
  LET low == ToLower(name)
      dots == {i \in 1..Len(low) : low[i] = "."}
  IN IF dots = {} THEN <<>> ELSE SubSeq(low, Max(dots) + 1, Len(low))

IsAllowedType(mime, name) == mime \in ALLOWED_MIME \/ FileExt(name) \in ALLOWED_EXT

\* the files a client may send at position p of the form: the name starts
\* with the position, so that the names of one request differ
PosChar(p) == <<"1", "2", "3", "4", "5", "6", "7", "8", "9">>[p]

FilesAt(p) ==
  { [name |-> <<PosChar(p), ".", "t", "x", "t">>, type |-> "text/plain", size |-> 1],
    [name |-> <<PosChar(p), ".", "T", "X", "T">>, type |-> "", size |-> MAX_FILE_BYTES],
    [name |-> <<PosChar(p), ".", "e", "x", "e">>, type |-> "application/x-msdownload",
     size |-> 1],
    [name |-> <<PosChar(p)>>, type |-> "", size |-> 1],
    [name |-> <<PosChar(p), ".", "t", "x", "t">>, type |-> "text/plain",
     size |-> MAX_FILE_BYTES + 1] }

Accepted(f) == IsAllowedType(f.type, f.name) /\ ~(f.size > MAX_FILE_BYTES)

\* the lists of files of a request; at most MaxDocs of them pass validation
FileLists ==
  UNION {{fs \in [1..n -> UNION {FilesAt(p) : p \in 1..n}] :
            /\ \A p \in 1..n : fs[p] \in FilesAt(p)
            /\ Cardinality({p \in 1..n : Accepted(fs[p])}) <= MaxDocs} :
         n \in 0..MaxFiles}

\* the end of a loop iteration: the next file, or the response (400 when
\* nothing was created, else 201)
Advance(b) ==
  IF b.pos + 1 > Len(b.files)
  THEN [b EXCEPT !.pos = @ + 1, !.doc = 0, !.pc = "done",
                 !.status = IF b.created = <<>> THEN 400 ELSE 201]
  ELSE [b EXCEPT !.pos = @ + 1, !.doc = 0, !.pc = "file"]

\* an error that ends the whole request instead of the iteration
Reject_StopsRequest(b, filename, reason) ==
  [b EXCEPT !.errors = Append(@, [filename |-> filename, reason |-> reason]),
            !.pc = "done", !.doc = 0,
            !.status = IF b.created = <<>> THEN 400 ELSE 201]

\* errors.push({ filename, reason }); continue
Reject(b, filename, reason) ==
  Advance([b EXCEPT !.errors = Append(@, [filename |-> filename, reason |-> reason])])

\* a client posts a form; without files the answer is 400
UploadRequest ==
  /\ uploadReq.pc = "idle"
  /\ \E fs \in FileLists :
       uploadReq' = IF fs = <<>>
                    THEN [NoBatch EXCEPT !.pc = "done", !.status = 400]
                    ELSE [NoBatch EXCEPT !.pc = "file", !.files = fs, !.pos = 1,
                                         !.docs = [p \in 1..Len(fs) |-> 0]]
  /\ UNCHANGED <<snip, chat, sweep, pack, search, list>>
  /\ UNCHANGED chunkVars
  /\ UNCHANGED pipeVars

\* start of a loop iteration: type and size validation, newDocId and store.add
UploadNextFile ==
  /\ uploadReq.pc = "file"
  /\ LET f == uploadReq.files[uploadReq.pos]
     IN IF ~IsAllowedType(f.type, f.name)
        THEN /\ uploadReq' = Reject(uploadReq, f.name,
                                    <<"Unsupported type: ",
                                      IF f.type = "" THEN "unknown" ELSE f.type>>)
             /\ UNCHANGED <<kv, docSet, uploads>>
        ELSE IF f.size > MAX_FILE_BYTES
        THEN /\ uploadReq' = Reject(uploadReq, f.name, <<"File too large (> 10MB)">>)
             /\ UNCHANGED <<kv, docSet, uploads>>
        ELSE \E d \in DocIds, ok \in BOOLEAN :
               /\ uploads[d] = "idle"
               /\ \A e \in DocIds : e < d => uploads[e] # "idle"
               /\ IF ok
                  THEN /\ kv' = [kv EXCEPT ![d] =
                                   [NoDoc EXCEPT !.processingStatus = "extracting"]]
                       /\ docSet' = docSet \cup {d}
                       /\ uploads' = [uploads EXCEPT ![d] = "extracting"]
                       /\ uploadReq' = [uploadReq EXCEPT !.pc = "processing", !.doc = d,
                                                         !.docs[uploadReq.pos] = d]
                  ELSE /\ uploadReq' = Reject(uploadReq, f.name,
                                              <<"Failed to create document record">>)
                       /\ UNCHANGED <<kv, docSet, uploads>>
  /\ UNCHANGED <<index, autoEmbed, calls, tasks, deletes, fixStuck, firstRun>>
  /\ UNCHANGED <<snip, chat, sweep, pack, search, list>>
  /\ UNCHANGED chunkVars

\* the awaited store.update returned.  After a failed extraction: errors.push.
\* After a successful one: the embedding request is fired, store.get is
\* awaited and the record goes to created, or to errors when it is gone or
\* store.get threw
UploadCollect ==
  /\ uploadReq.pc = "processing"
  /\ LET d == uploadReq.doc
         f == uploadReq.files[uploadReq.pos]
     IN /\ uploads[d] \in {"saving", "failing"}
        /\ TasksOf(<<"upload", d, 0>>) = {}
        /\ uploads' = [uploads EXCEPT ![d] = "done"]
        /\ IF uploads[d] = "failing"
           THEN /\ uploadReq' = Reject(uploadReq, f.name, <<"Extraction error">>)
                /\ autoEmbed' = autoEmbed
           ELSE /\ autoEmbed' = [autoEmbed EXCEPT ![d] = "pending"]
                /\ \E getOk \in BOOLEAN :
                     uploadReq' =
                       IF ~getOk
                       THEN Reject(uploadReq, f.name, <<"Failed to retrieve document">>)
                       ELSE IF ~Exists(d)
                       THEN Reject(uploadReq, f.name,
                                   <<"Failed to retrieve updated document">>)
                       ELSE Advance([uploadReq EXCEPT !.created =
                              Append(@, [id |-> d, filename |-> f.name,
                                         processingStatus |-> kv[d].processingStatus])])
  /\ UNCHANGED <<kv, docSet, index, calls, tasks, deletes, fixStuck, firstRun>>
  /\ UNCHANGED <<snip, chat, sweep, pack, search, list>>
  /\ UNCHANGED chunkVars

NextUpload ==
  \/ UploadRequest
  \/ UploadNextFile
  \/ UploadExtracted
  \/ UploadExtractFailed
  \/ UpdateGet
  \/ UpdateHset
  \/ UploadCollect
  \/ DeleteDel
  \/ DeleteSrem

SpecUpload == Init /\ [][NextUpload]_vars

\* ------------------------------------------------------------------------
\* components/DocumentsList.tsx
\* ------------------------------------------------------------------------
\* a guard that lets every call through
LoadBlocked_Off(l) == FALSE

\* if (inflight.current) return
LoadBlocked(l) == l.inflight

\* load(), up to its first await: the guard, inflight.current = true,
\* setLoading(true) and the start of fetch("/api/documents")
Load(l, by) ==
  IF LoadBlocked(l)
  THEN [l EXCEPT !.calls = @ + 1, !.blocked = @ + 1, !.last = by]
  ELSE [l EXCEPT !.calls = @ + 1, !.started = @ + 1, !.last = by,
                 !.inflight = TRUE, !.loading = TRUE, !.fetching = @ + 1]

ListUnchanged ==
  /\ UNCHANGED <<snip, chat, uploadReq, sweep, pack, search>>
  /\ UNCHANGED chunkVars
  /\ UNCHANGED pipeVars

\* the component mounts: the initial-load effect calls load()
ListMount ==
  /\ ~list.mounted
  /\ list' = Load([list EXCEPT !.mounted = TRUE], "initial")
  /\ ListUnchanged

\* the 2-second interval fires; it exists while shouldPoll is true
ListPoll ==
  /\ list.mounted
  /\ list.polling
  /\ list.calls < MaxLoads
  /\ list' = Load(list, "poll")
  /\ ListUnchanged

\* the Refresh button is clicked
ListRefresh ==
  /\ list.mounted
  /\ list.calls < MaxLoads
  /\ list' = Load(list, "refresh")
  /\ ListUnchanged

\* a docs:reload event is dispatched
ListReload ==
  /\ list.mounted
  /\ list.calls < MaxLoads
  /\ list' = Load(list, "reload")
  /\ ListUnchanged

\* a fetch settles.  On success setDocs decides shouldPoll (some document
\* is uploading or extracting and younger than 2 minutes); on failure the
\* catch logs.  The finally block resets loading and inflight.current.
ListFetched ==
  /\ list.fetching > 0
  /\ \E ok \in BOOLEAN, shouldPoll \in BOOLEAN :
       list' = [list EXCEPT !.fetching = @ - 1, !.loading = FALSE, !.inflight = FALSE,
                            !.polling = IF ok THEN shouldPoll ELSE @]
  /\ ListUnchanged

NextList ==
  \/ ListMount
  \/ ListPoll
  \/ ListRefresh
  \/ ListReload
  \/ ListFetched

SpecList == Init /\ [][NextList]_vars

\* ------------------------------------------------------------------------
\* Properties of chunkText
\* ------------------------------------------------------------------------
ValidChunkArgs ==
  /\ cpc # "idle"
  /\ Trim(text) # <<>>
  /\ maxTokens >= 1
  /\ overlapTokens < maxTokens

\* a text without any whitespace character
Unbroken(t) == \A i \in 1..Len(t) : t[i] \notin WhiteSpace

\* C1: for every non-blank text and 0 <= overlapTokens < maxTokens, chunkText
\* terminates (its loop exits after finitely many iterations).
C1_ChunkTextTerminates == ValidChunkArgs ~> (cpc = "done")

\* C2: every loop iteration that does not exit the loop leaves the scan
\* position strictly greater than it was at the beginning of the iteration.
C2_ScanPositionAdvances ==
  [][(cpc = "loop" /\ cpc' = "loop") => start' > start]_vars

\* chunkText was called on one unbroken run longer than the budget
LongRunArgs ==
  /\ cpc # "idle"
  /\ Unbroken(text)
  /\ Len(text) > maxChars
  /\ overlapChars < maxChars

ReturnedSeveral == cpc = "done" /\ Len(chunks) >= 2

\* C3: a text that is one unbroken run of non-whitespace characters longer
\* than maxChars, chunked with overlapChars < maxChars, makes chunkText
\* terminate with at least two chunks.
C3_LongRunTerminates == LongRunArgs ~> ReturnedSeveral

C3_Witness == LongRunArgs /\ ReturnedSeveral

\* C4: a text whose normalized, trimmed length is at most maxChars yields
\* exactly one chunk, with chunkIndex 0 and the trimmed input as content.
C4_ShortTextOneChunk ==
  (cpc = "done" /\ Trim(text) # <<>> /\ Len(Normalize(text)) <= maxChars)
    => /\ Len(chunks) = 1
       /\ chunks[1].chunkIndex = 0
       /\ chunks[1].content = Normalize(text)

\* C5: the chunk at position i (0-based) of the result has chunkIndex i.
C5_ContiguousIndices ==
  \A i \in 1..Len(chunks) : chunks[i].chunkIndex = i - 1

\* chunkText returned several chunks and dropped the empty piece of its last window
C5_Witness ==
  /\ cpc = "done"
  /\ Len(chunks) >= 2
  /\ Piece(clean, start, maxChars) = <<>>

\* C6: every chunk is non-empty and has at most maxChars characters.
C6_ChunkLengthBounded ==
  \A i \in 1..Len(chunks) :
    /\ Len(chunks[i].content) >= 1
    /\ Len(chunks[i].content) <= maxChars

\* chunkText returned a chunk that fills the whole character budget
C6_Witness ==
  /\ cpc = "done"
  /\ Len(clean) > maxChars
  /\ \E i \in 1..Len(chunks) : Len(chunks[i].content) = maxChars

\* ------------------------------------------------------------------------
\* Properties of the embedding pipeline and the document lifecycle
\* ------------------------------------------------------------------------
\* the entries of document d in the `processed` lists of the responses
ProcessedEntries(d) ==
  {<<c, n>> \in CallIds \X (1..MaxDocs) :
     n <= Len(calls[c].processed) /\ calls[c].processed[n].id = d}

SuccessfulRuns(d) == Cardinality(ProcessedEntries(d))

\* every store.update for d has settled and d was not deleted
Settled(d) == deletes[d] = "idle" /\ \A t \in tasks : t.id # d

\* C7: after a second successful run of the embedding pipeline on a document,
\* the index holds the same vector ids for it as after the first run, and the
\* stored chunkCount is the number of chunks of the runs.
C7_EmbeddingIdempotent ==
  \A d \in DocIds :
    SuccessfulRuns(d) >= 2 =>
      /\ IndexIds(index, d) = firstRun[d].ids
      /\ \A e \in ProcessedEntries(d) :
           LET n == calls[e[1]].processed[e[2]].chunks
           IN /\ (Exists(d) /\ kv[d].chunkCount # 0) => kv[d].chunkCount = n
              /\ Settled(d) => kv[d].chunkCount = n

C7_Witness ==
  \E d \in DocIds :
    /\ SuccessfulRuns(d) >= 2
    /\ Settled(d)
    /\ kv[d].processingStatus = "completed"
    /\ kv[d].chunkCount = 2
    /\ Cardinality(IndexIds(index, d)) = 2

\* C8: the store.update of an embedding call never changes the status,
\* chunkCount or errorMessage of a document that is completed or in error.
C8_TerminalNeverMutated ==
  [][\A t \in tasks :
       (/\ t.by[1] = "embed"
        /\ HSetOf(t)
        /\ kv[t.id].processingStatus \in {"completed", "error"})
       => /\ kv'[t.id].processingStatus = kv[t.id].processingStatus
          /\ kv'[t.id].chunkCount = kv[t.id].chunkCount
          /\ kv'[t.id].errorMessage = kv[t.id].errorMessage]_vars

\* C9: a document record has a chunkCount iff its status is completed.
C9_ChunkCountIffCompleted ==
  \A d \in DocIds :
    Exists(d) => (kv[d].chunkCount # 0 <=> kv[d].processingStatus = "completed")

\* the transitions of the document lifecycle
AllowedStatusChanges ==
  { <<"extracting", "embedding">>, <<"embedding", "completed">>,
    <<"extracting", "error">>, <<"embedding", "error">> }

\* C10: every change of a document's processingStatus is extracting ->
\* embedding, embedding -> completed, or non-terminal -> error.
C10_StatusTransitions ==
  [][\A d \in DocIds :
       (/\ Exists(d)
        /\ kv'[d].processingStatus # "absent"
        /\ kv'[d].processingStatus # kv[d].processingStatus)
       => <<kv[d].processingStatus, kv'[d].processingStatus>> \in AllowedStatusChanges]_vars

\* ------------------------------------------------------------------------
\* Properties of the query side
\* ------------------------------------------------------------------------
\* the snippet without its leading and trailing ellipsis markers
StripMarkers(o) ==
  LET a == IF o # <<>> /\ Head(o) = ELLIPSIS THEN Tail(o) ELSE o
  IN IF a # <<>> /\ a[Len(a)] = ELLIPSIS THEN SubSeq(a, 1, Len(a) - 1) ELSE a

IsSubstring(x, t) == \E i \in 0..(Len(t) - Len(x)) : Slice(t, i, i + Len(x)) = x

\* C12: the result of makeSnippet, without its ellipsis markers, is a
\* contiguous substring of the chunk text of at most 2 x radius characters.
C12_SnippetBounded ==
  snip.pc = "done" =>
    /\ IsSubstring(StripMarkers(snip.out), snip.text)
    /\ Len(StripMarkers(snip.out)) <= 2 * snip.radius

\* C11: when the vector search returns no match, or a best match with a score
\* below 0.15, the chat endpoint answers with the refusal text and no sources
\* and has not called the completion provider; a best score of 0.15 passes.
C11_ConfidenceGate ==
  chat.queried =>
    IF chat.matches = <<>> \/ chat.matches[1].score < 15
    THEN /\ chat.pc = "done"
         /\ chat.answer = REFUSAL
         /\ chat.sources = <<>>
         /\ chat.completions = 0
    ELSE chat.completions = 1

\* a filtered query whose best match scored exactly 0.15 went on to the
\* completion provider
C11_Witness ==
  /\ chat.queried
  /\ chat.documentIds # {}
  /\ chat.matches # <<>>
  /\ chat.matches[1].score = 15
  /\ chat.pc = "done"
  /\ chat.answer = "generated"
  /\ chat.sources # <<>>

\* C13: when DELETE /api/documents/:id has removed a document and returns,
\* the vector index holds no vector whose metadata.documentId is that
\* document's id.
C13_DeleteRemovesVectors ==
  [][\A d \in DocIds :
       (deletes[d] = "srem" /\ deletes'[d] = "done") => IndexIds(index', d) = {}]_vars

\* ------------------------------------------------------------------------
\* Properties of the upload request
\* ------------------------------------------------------------------------
\* the entries of the response that name the file at position p
EntriesOf(p) ==
  Cardinality({i \in 1..Len(uploadReq.created) :
                 uploadReq.created[i].filename = uploadReq.files[p].name})
  + Cardinality({j \in 1..Len(uploadReq.errors) :
                   uploadReq.errors[j].filename = uploadReq.files[p].name})

\* the file at position p has a type that is not allowed, or is too large
FailsValidation(p) ==
  LET f == uploadReq.files[p]
  IN \/ (f.type \notin ALLOWED_MIME /\ FileExt(f.name) \notin ALLOWED_EXT)
     \/ f.size > MAX_FILE_BYTES

\* C14: in the response of a batch upload every file has exactly one entry,
\* in created or in errors; a file that fails type or size validation has an
\* errors entry with its filename and a reason, and no document record.
C14_OneEntryPerFile ==
  (uploadReq.pc = "done" /\ uploadReq.files # <<>>) =>
    /\ Len(uploadReq.created) + Len(uploadReq.errors) = Len(uploadReq.files)
    /\ \A p \in 1..Len(uploadReq.files) :
         /\ EntriesOf(p) = 1
         /\ FailsValidation(p) =>
              /\ \E j \in 1..Len(uploadReq.errors) :
                   /\ uploadReq.errors[j].filename = uploadReq.files[p].name
                   /\ uploadReq.errors[j].reason # <<>>
              /\ uploadReq.docs[p] = 0
    /\ Cardinality({d \in DocIds : uploads[d] # "idle"})
         = Cardinality({p \in 1..Len(uploadReq.files) : uploadReq.docs[p] # 0})

\* three files, the second fails validation: two successes and one error
\* entry that names file 2
C14_Witness ==
  /\ uploadReq.pc = "done"
  /\ Len(uploadReq.files) = 3
  /\ FailsValidation(2)
  /\ Len(uploadReq.created) = 2
  /\ Len(uploadReq.errors) = 1
  /\ uploadReq.errors[1].filename = uploadReq.files[2].name
  /\ uploadReq.status = 201

\* ------------------------------------------------------------------------
\* Progress of the ingestion pipeline
\* ------------------------------------------------------------------------
\* call c is an embedding sweep that selected several documents
SweepOfSeveral(c) ==
  /\ calls[c].pc # "idle"
  /\ calls[c].documentId = 0
  /\ Len(calls[c].targets) >= 2

\* call c has answered and every target is in exactly one of its lists
SweepAnswered(c) ==
  /\ calls[c].pc = "done"
  /\ \A n \in 1..Len(calls[c].targets) :
       Cardinality({m \in 1..Len(calls[c].processed) :
                      calls[c].processed[m].id = calls[c].targets[n].id})
       + Cardinality({m \in 1..Len(calls[c].failures) :
                        calls[c].failures[m].id = calls[c].targets[n].id}) = 1

\* C15: an embedding sweep over several documents is not stopped by the
\* failure of one of them: it goes on to answer, with every target in
\* exactly one of processed and failures.
C15_SweepIsolatesFailures ==
  \A c \in CallIds : SweepOfSeveral(c) ~> SweepAnswered(c)

\* C16: a document accepted by upload reaches status completed or error
\* without any manual call.
C16_UploadReachesTerminal ==
  \A d \in DocIds :
    (uploads[d] # "idle") ~> (kv[d].processingStatus \in {"completed", "error"})

\* ------------------------------------------------------------------------
\* The stuck-document sweep
\* ------------------------------------------------------------------------
\* the step is a run of the sweep
SweepRuns == sweep'.runs = sweep.runs + 1

\* C17: after a run of the stuck-document sweep every document that was in
\* status extracting or embedding and older than 2 minutes is in status
\* error with the synthetic message.
C17_SweepFixesStuck ==
  [][SweepRuns =>
       \A d \in sweep'.stale :
         kv[d].processingStatus \in {"extracting", "embedding"} =>
           /\ kv'[d].processingStatus = "error"
           /\ kv'[d].errorMessage = STUCK_MESSAGE]_vars

\* document d is none of the sweep's business: in error, completed, or
\* younger than 2 minutes at the last run
NotStuck(d) ==
  \/ kv[d].processingStatus \in {"error", "completed"}
  \/ d \notin sweep.stale

C19_UpsertPerBatch ==
  \A c \in CallIds :
    calls[c].pc = "embed" =>
      \A n \in 1..Len(calls[c].vectors) : calls[c].vectors[n] \in index

\* what store.update(t.id, t.patch) writes when it runs alone on the record
\* as it is now: nothing when the document is gone
SerialWrite(t) ==
  IF Exists(t.id) THEN HSet(kv[t.id], Merge(kv[t.id], t.patch)) ELSE kv[t.id]

\* C20: the updates of one document are serialized: every write of
\* store.update leaves the record that the update, run alone after the
\* operations that completed before it, would leave.
C20_UpdatesSerialized ==
  [][\A t \in tasks : HSetOf(t) => kv'[t.id] = SerialWrite(t)]_vars

\* ------------------------------------------------------------------------
\* Records of the store against the outcome of the pipeline
\* ------------------------------------------------------------------------
\* C24: a document record has an errorMessage only if its processingStatus
\* is error.
C24_ErrorMessageOnlyInError ==
  \A d \in DocIds :
    (Exists(d) /\ kv[d].errorMessage # "") => kv[d].processingStatus = "error"

\* C26: a record in status completed has the chunkCount of the chunks of
\* its extractedContent, and the index holds the vector of every one of
\* these chunks.
C26_CompletedHasVectors ==
  \A d \in DocIds :
    kv[d].processingStatus = "completed" =>
      LET r == ChunkingOf(kv[d].extractedContent)
      IN /\ ~r.diverges
         /\ kv[d].chunkCount = Len(r.chunks)
         /\ \A i \in 0..(kv[d].chunkCount - 1) : <<d, i>> \in index

\* a document was completed by the pipeline: two chunks, two vectors
C26_Witness ==
  \E d \in DocIds :
    /\ kv[d].processingStatus = "completed"
    /\ kv[d].chunkCount = 2
    /\ \E c \in CallIds : calls[c].pc = "done" /\ calls[c].processed # <<>>

\* C29: at the step in which an embedding call returns its response, every
\* document of processed is in status completed with the reported
\* chunkCount and every document of failures is in status error with the
\* reported reason.
C29_ResponseReflectsStore ==
  [][\A c \in CallIds :
       (calls[c].pc # "done" /\ calls'[c].pc = "done") =>
         /\ \A n \in 1..Len(calls'[c].processed) :
              LET p == calls'[c].processed[n]
              IN /\ kv'[p.id].processingStatus = "completed"
                 /\ kv'[p.id].chunkCount = p.chunks
         /\ \A n \in 1..Len(calls'[c].failures) :
              LET f == calls'[c].failures[n]
              IN /\ kv'[f.id].processingStatus = "error"
                 /\ kv'[f.id].errorMessage = f.reason]_vars

\* C30: once DELETE has completed for a document, store.get finds no hash
\* and store.list no set member for it, and this stays so.
C30_DeletedStaysAbsent ==
  \A d \in DocIds : deletes[d] = "done" => (~Exists(d) /\ d \notin docSet)

\* ------------------------------------------------------------------------
\* Cut points and coverage of chunkText
\* ------------------------------------------------------------------------
\* position c of a window lies at or after 60% of the window's length
LateEnough(c, window) == c >= 0 /\ 10 * c >= 6 * Len(window)

\* the cut point of a window by the cascade of break points, each threshold
\* taken on the window itself; a space at the very start of the window is
\* no break point
CutByWindow(window) ==
  LET para == LastIndexOf(window, <<"\n", "\n">>)
      sentence == LastIndexOf(window, <<".", " ">>)
      word == LastIndexOf(window, <<" ">>)
  IN IF LateEnough(para, window) THEN para
     ELSE IF LateEnough(sentence, window) THEN sentence
     ELSE IF word > 0 THEN word
     ELSE Len(window)

\* C25: for every window of the scan, also one that does not start at
\* position 0, the cut point is the last blank line if it lies at or after
\* 60% of the window, else the last ". " under the same threshold, else the
\* last space, else the length of the window.
C25_CutPointCascade ==
  (cpc = "loop" /\ start < Len(clean)) =>
    LET end == WindowEnd(clean, start, maxChars)
        window == Slice(clean, start, end)
    IN CutPoint(window, end) = CutByWindow(window)

\* position p of the normalized text lies in an occurrence of a chunk
InSomeChunk(p) ==
  \E i \in 1..Len(chunks) :
    \E s \in 0..(Len(clean) - Len(chunks[i].content)) :
      /\ SubSeq(clean, s + 1, s + Len(chunks[i].content)) = chunks[i].content
      /\ s < p
      /\ p <= s + Len(chunks[i].content)

\* C28: every non-whitespace character of the normalized text is contained
\* in at least one of the chunks chunkText returns.
C28_NoContentDropped ==
  (cpc = "done" /\ Trim(text) # <<>>) =>
    \A p \in 1..Len(clean) : clean[p] \notin WhiteSpace => InSomeChunk(p)

\* ------------------------------------------------------------------------
\* The documents list
\* ------------------------------------------------------------------------
\* C27: at most one fetch started by DocumentsList.load is in flight at any
\* time, and a call of load made while a fetch is in flight starts no
\* request.
C27_SingleFetchInFlight ==
  [][/\ list'.fetching <= 1
     /\ (list'.calls = list.calls + 1 /\ list.fetching >= 1)
          => list'.started = list.started]_vars

\* a call of load was refused while a fetch was in flight, and after that
\* fetch had settled the polling interval started the fetch now in flight
C27_Witness ==
  /\ list.last = "poll"
  /\ list.fetching = 1
  /\ list.blocked >= 1
  /\ list.started >= 2

\* ------------------------------------------------------------------------
\* packContext
\* ------------------------------------------------------------------------
\* the matches with non-empty content, in the order of the index
WithContent(matches) == SelectSeq(matches, LAMBDA m : m.metadata.content # <<>>)

\* the length of the citation lines of the first p of these matches,
\* numbered from 1
RECURSIVE LinesLength(_, _, _)
LinesLength(ne, question, p) ==
  IF p = 0 THEN 0
  ELSE LinesLength(ne, question, p - 1)
       + LineLength(p, ne[p], MakeSnippet(ne[p].metadata.content, question, ChatRadius))

\* the longest prefix of these matches whose lines fit in the budget
LongestFit(ne, question, budget) ==
  Max({p \in 0..Len(ne) : LinesLength(ne, question, p) <= budget})

\* C21: the context packContext returns is not longer than the character
\* budget, and its sources are exactly the longest prefix of the matches
\* with non-empty content whose citation lines fit in the budget together.
C21_PackWithinBudget ==
  pack.pc = "done" =>
    LET ne == WithContent(pack.matches)
        fit == LongestFit(ne, pack.question, ChatCharBudget)
    IN /\ Len(pack.context) <= ChatCharBudget
       /\ Len(pack.sources) = fit
       /\ \A j \in 1..fit :
            /\ pack.sources[j].documentId = ne[j].metadata.documentId
            /\ pack.sources[j].chunkIndex = ne[j].metadata.chunkIndex

\* packing stopped at a line that did not fit although the line of a later
\* match would have fitted
C21_Witness ==
  /\ pack.pc = "done"
  /\ LET ne == WithContent(pack.matches)
         fit == Len(pack.sources)
     IN /\ fit >= 1
        /\ \E j \in (fit + 2)..Len(ne) :
             LinesLength(ne, pack.question, fit)
             + LineLength(fit + 1, ne[j],
                          MakeSnippet(ne[j].metadata.content, pack.question, ChatRadius))
               <= ChatCharBudget

\* the citation lines of the sources of a response, numbered by position
RECURSIVE LinesOf(_, _)
LinesOf(sources, n) ==
  IF n = 0 THEN <<>>
  ELSE LinesOf(sources, n - 1)
       \o CitationLine(n, sources[n].filename, sources[n].chunkIndex, sources[n].snippet)

\* C22: the source at position i of the response is the match of the
\* context line with the marker [i]: the context consists of the lines of
\* the sources, numbered 1..n in the order of the list.
C22_CitationNumbersMatch ==
  pack.pc = "done" =>
    pack.context = Trim(LinesOf(pack.response, Len(pack.response)))

\* two sources were packed after a match without content was skipped
C22_Witness ==
  /\ pack.pc = "done"
  /\ Len(pack.response) = 2
  /\ Len(pack.matches) = 3
  /\ pack.matches[1].metadata.content = <<>>

\* ------------------------------------------------------------------------
\* the filters of the query routes
\* ------------------------------------------------------------------------
\* C23: when a chat or search request names documents, every source or
\* result it returns belongs to one of them; when it names neither documents
\* nor file types, no filter is sent and every vector of the index is a
\* candidate.
C23_FilterRestrictsSources ==
  /\ chat.documentIds # {} =>
       \A j \in DOMAIN chat.sources : chat.sources[j].documentId \in chat.documentIds
  /\ search.documentIds # {} =>
       \A j \in DOMAIN search.results :
          search.results[j].documentId \in search.documentIds
  /\ (chat.queried /\ chat.documentIds = {} /\ chat.fileTypes = {}) =>
       /\ ~chat.filter.sent
       /\ \A v \in index : Honours(chat.filter, v)
  /\ (search.pc \in {"query", "done"} /\ search.status # 400
        /\ search.documentIds = {} /\ search.fileTypes = {}) =>
       /\ ~search.filter.sent
       /\ \A v \in index : Honours(search.filter, v)

\* a chat request that named one of two indexed documents was answered with
\* sources
C23_Witness ==
  /\ chat.pc = "done"
  /\ chat.status = 200
  /\ chat.sources # <<>>
  /\ chat.documentIds # {}
  /\ \E v \in index : v[1] \notin chat.documentIds

\* the same for a search request
SearchFiltered ==
  /\ search.pc = "done"
  /\ search.status = 200
  /\ search.results # <<>>
  /\ search.documentIds # {}
  /\ \E v \in index : v[1] \notin search.documentIds

\* an unfiltered search returned results of two documents
SearchUnrestricted ==
  /\ search.pc = "done"
  /\ ~search.filter.sent
  /\ \E a, b \in DOMAIN search.results :
       search.results[a].documentId # search.results[b].documentId

====
